---- MODULE Spec2Model ----
(***************************************************************************)
(* Production planning parser: the upload pipeline (main.py, parser.py)    *)
(* and the document store gateway (database.py), as a state machine.       *)
(*                                                                         *)
(* JSON / Python values are tagged records:                                *)
(*   [t |-> "null"], [t |-> "int", i |-> n], [t |-> "str", s |-> "..."],  *)
(*   [t |-> "list", l |-> <<...>>], [t |-> "dict", kv |-> << <<k, v>> >>] *)
(* A dict keeps its pairs in insertion order, as a Python dict does.       *)
(***************************************************************************)
EXTENDS Integers, Sequences, FiniteSets, TLC

VARIABLES
    parser,           \* main.py global `parser`: TRUE when a ProductionPlanParser was built
    database,         \* main.py global `database`: TRUE when the Database was built
    pc,               \* position of the upload handler
    filename,         \* file.filename of the upload being handled
    reply,            \* json.loads(result) of the oracle reply of this upload
    extracted_items,  \* `items` returned by extract_production_data
    item_data_after,  \* the raw maps after the materializer loop ran over them
    production_items, \* the ProductionItemCreate records of this upload
    response,         \* last HTTP response of the upload handler
    decode_calls,     \* pd.read_excel calls of this upload
    oracle_calls,     \* chat.completions.create calls of this upload
    insert_calls,     \* insert_many calls of this upload
    store_before,     \* the collection as it was when this upload was received
    store,            \* the collection production_items, in insertion order
    next_id,          \* number of ObjectIds generated so far
    clock,            \* last value read from datetime.utcnow()
    result,           \* outcome of the last Database / item endpoint call
    history           \* per identifier: the record it was created from, and whether it was updated

vars == <<parser, database, pc, filename, reply, extracted_items, item_data_after,
          production_items, response, decode_calls, oracle_calls, insert_calls,
          store_before, store, next_id, clock, result, history>>

uploadVars == <<pc, filename, reply, extracted_items, item_data_after,
                production_items, response, decode_calls, oracle_calls,
                insert_calls, store_before>>

----------------------------------------------------------------------------
(* Bounds of the model *)

MaxItems == 2      \* longest list of raw maps in an oracle reply
MaxKeys == 2       \* most keys of an oracle reply object
MaxClock == 1      \* largest clock reading
MaxIds == 2        \* most identifiers generated by direct store calls
MaxBatch == 2      \* longest batch given to create_many_production_items directly
MaxSkip == 1       \* largest skip of a query
MaxLimit == 2      \* largest limit of a query

----------------------------------------------------------------------------
(* Python values *)

Null == [t |-> "null"]
JInt(n) == [t |-> "int", i |-> n]
JStr(s) == [t |-> "str", s |-> s]
JList(l) == [t |-> "list", l |-> l]
JDict(kv) == [t |-> "dict", kv |-> kv]

Min(S) == CHOOSE x \in S : \A y \in S : x <= y

\* The characters of the strings the model uses (TLA+ strings are atomic).
Chars(s) ==
    CASE s = "" -> <<>>
      [] s = "x" -> <<"x">>
      [] s = "a" -> <<"a">>
      [] s = "A" -> <<"A">>
      [] s = "." -> <<".">>
      [] s = "ab" -> <<"a", "b">>
      [] s = "Ab" -> <<"A", "b">>
      [] s = "aB" -> <<"a", "B">>
      [] s = "b." -> <<"b", ".">>
      [] s = "B" -> <<"B">>
      [] s = "pending" -> <<"p", "e", "n", "d", "i", "n", "g">>
      [] s = "done" -> <<"d", "o", "n", "e">>
      [] s = ".xlsx" -> <<".", "x", "l", "s", "x">>
      [] s = ".xls" -> <<".", "x", "l", "s">>
      [] s = "a.xlsx" -> <<"a", ".", "x", "l", "s", "x">>
      [] s = "a.xls" -> <<"a", ".", "x", "l", "s">>
      [] s = "a.csv" -> <<"a", ".", "c", "s", "v">>
      [] s = "a.XLSX" -> <<"a", ".", "X", "L", "S", "X">>
      [] s = "xlsx" -> <<"x", "l", "s", "x">>
      [] s = "a.xlsx.bak" -> <<"a", ".", "x", "l", "s", "x", ".", "b", "a", "k">>

\* bool(v), as `if v:` evaluates it
Truthy(v) ==
    CASE v.t = "null" -> FALSE
      [] v.t = "int" -> v.i # 0
      [] v.t = "str" -> v.s # ""
      [] v.t = "list" -> Len(v.l) > 0
      [] v.t = "dict" -> Len(v.kv) > 0

\* k in d
Contains(d, k) == \E i \in 1..Len(d.kv) : d.kv[i][1] = k

\* d[k]
Lookup(d, k) == d.kv[CHOOSE i \in 1..Len(d.kv) : d.kv[i][1] = k][2]

\* d.get(k, default)
DictGet(d, k, default) == IF Contains(d, k) THEN Lookup(d, k) ELSE default

\* d after d.pop(k, default)
IsNotDates(p) == p[1] # "dates"
DictPopDates(d) == JDict(SelectSeq(d.kv, IsNotDates))

\* whether len(v) and `for x in v` are defined
HasLen(v) == v.t \in {"list", "str", "dict"}

\* the elements `for x in v` yields
IterElems(v) ==
    CASE v.t = "list" -> v.l
      [] v.t = "str" -> [i \in 1..Len(Chars(v.s)) |-> JStr(Chars(v.s)[i])]
      [] v.t = "dict" -> [i \in 1..Len(v.kv) |-> JStr(v.kv[i][1])]

\* name.endswith(suffix)
EndsWith(name, suffix) ==
    LET n == Chars(name)
        x == Chars(suffix)
    IN  /\ Len(x) <= Len(n)
        /\ \A i \in 1..Len(x) : n[Len(n) - Len(x) + i] = x[i]

----------------------------------------------------------------------------
(* parser.py: extract_production_data, the reply normalisation *)

\* index of the first list among parsed_data.values(), 0 when there is none
FirstListIndex(d) ==
    LET S == {i \in 1..Len(d.kv) : d.kv[i][2].t = "list"}
    IN  IF S = {} THEN 0 ELSE Min(S)

\* a plausible slip: production_items looked up before items
NormalizeProductionItemsFirst(parsed_data) ==
    IF parsed_data.t = "dict"
    THEN IF Contains(parsed_data, "production_items")
         THEN Lookup(parsed_data, "production_items")
         ELSE IF Contains(parsed_data, "items")
         THEN Lookup(parsed_data, "items")
         ELSE IF FirstListIndex(parsed_data) # 0
         THEN parsed_data.kv[FirstListIndex(parsed_data)][2]
         ELSE JList(<<parsed_data>>)
    ELSE parsed_data

\* a plausible slip: `if parsed_data.get("items"):` for `if "items" in parsed_data:`,
\* and so on down the chain: an empty value counts as absent
NormalizeNeverEmpty(parsed_data) ==
    IF parsed_data.t = "dict"
    THEN IF Contains(parsed_data, "items") /\ Truthy(Lookup(parsed_data, "items"))
         THEN Lookup(parsed_data, "items")
         ELSE IF Contains(parsed_data, "production_items")
                 /\ Truthy(Lookup(parsed_data, "production_items"))
         THEN Lookup(parsed_data, "production_items")
         ELSE IF FirstListIndex(parsed_data) # 0
                 /\ Truthy(parsed_data.kv[FirstListIndex(parsed_data)][2])
         THEN parsed_data.kv[FirstListIndex(parsed_data)][2]
         ELSE JList(<<parsed_data>>)
    ELSE IF Truthy(parsed_data) THEN parsed_data ELSE JList(<<parsed_data>>)

\* parser.py 121-135
NormalizeReply(parsed_data) ==
    IF parsed_data.t = "dict"
    THEN IF Contains(parsed_data, "items")
         THEN Lookup(parsed_data, "items")
         ELSE IF Contains(parsed_data, "production_items")
         THEN Lookup(parsed_data, "production_items")
         ELSE IF FirstListIndex(parsed_data) # 0
         THEN parsed_data.kv[FirstListIndex(parsed_data)][2]
         ELSE JList(<<parsed_data>>)
    ELSE parsed_data

----------------------------------------------------------------------------
(* models.py *)

DatesFieldOrder ==
    <<"fabric", "cutting", "sewing", "finishing", "packing", "shipping",
      "delivery", "other_milestones">>

ItemFieldOrder ==
    <<"order_number", "style", "fabric", "color", "quantity", "status",
      "dates", "source_file", "additional_data">>

ItemFields == {ItemFieldOrder[i] : i \in 1..Len(ItemFieldOrder)}

\* the strings pydantic's int field accepts, with the integer each becomes
IsIntString(s) == s \in {"5"}
IntOfString(s) == CASE s = "5" -> 5

\* Optional[str]
ValidOptStr(v) == v.t \in {"null", "str"}

\* Optional[int]: an integer, or a string that reads as one (coerced)
ValidOptInt(v) == v.t \in {"null", "int"} \/ (v.t = "str" /\ IsIntString(v.s))
CoerceOptInt(v) == IF v.t = "str" THEN JInt(IntOfString(v.s)) ELSE v

\* Optional[Dict[str, Any]]
ValidOptDict(v) == v.t \in {"null", "dict"}

\* Optional[Dict[str, str]]
ValidOptStrDict(v) ==
    \/ v.t = "null"
    \/ v.t = "dict" /\ \A i \in 1..Len(v.kv) : v.kv[i][2].t = "str"

\* the pairs of kv whose key is a field of the model, in the model's field order
SetFields(order, d) ==
    LET present(k) == Contains(d, k)
        names == SelectSeq(order, present)
    IN  [i \in 1..Len(names) |-> <<names[i], Lookup(d, names[i])>>]

\* ProductionDates(**dates_data): whether the construction succeeds
ProductionDatesOK(dates_data) ==
    /\ dates_data.t = "dict"
    /\ \A i \in 1..Len(dates_data.kv) :
          LET k == dates_data.kv[i][1]
              v == dates_data.kv[i][2]
          IN  IF k = "other_milestones" THEN ValidOptStrDict(v)
              ELSE IF \E j \in 1..Len(DatesFieldOrder) : DatesFieldOrder[j] = k
              THEN ValidOptStr(v)
              ELSE TRUE

\* ProductionDates(**dates_data): the fields that were set (others are ignored)
ProductionDates(dates_data) ==
    [t |-> "ProductionDates", kv |-> SetFields(DatesFieldOrder, dates_data)]

EmptyDates == [t |-> "ProductionDates", kv |-> <<>>]

\* ProductionItemCreate(**kwargs): whether the construction succeeds
ProductionItemOK(kwargs) ==
    \A i \in 1..Len(kwargs.kv) :
        LET k == kwargs.kv[i][1]
            v == kwargs.kv[i][2]
        IN  CASE k \in {"order_number", "style", "fabric", "color", "status",
                        "source_file"} -> ValidOptStr(v)
              [] k = "quantity" -> ValidOptInt(v)
              [] k = "dates" -> v.t \in {"null", "ProductionDates"}
              [] k = "additional_data" -> ValidOptDict(v)
              [] OTHER -> TRUE

\* ProductionItemCreate(**kwargs): the fields that were set, validated values
ProductionItemCreate(kwargs) ==
    LET f == SetFields(ItemFieldOrder, kwargs)
    IN  [t |-> "ProductionItemCreate",
         kv |-> [i \in 1..Len(f) |->
                    IF f[i][1] = "quantity"
                    THEN <<"quantity", CoerceOptInt(f[i][2])>>
                    ELSE f[i]]]

\* the class default of a field that was not set
FieldDefault(k) ==
    CASE k = "status" -> JStr("pending")
      [] k = "dates" -> EmptyDates
      [] k = "additional_data" -> JDict(<<>>)
      [] OTHER -> Null

\* item.<k> of a model instance
Attr(item, k) == DictGet(item, k, FieldDefault(k))

\* model_dump(exclude_unset=True) of a value: nested models become dicts
DumpValue(v) == IF v.t = "ProductionDates" THEN JDict(v.kv) ELSE v

\* a plausible slip: exclude_none=True for exclude_unset=True
ModelDumpExcludeNone(item) ==
    [k \in {f \in ItemFields : Attr(item, f) # Null} |-> DumpValue(Attr(item, k))]

\* item.model_dump(exclude_unset=True) as a document: key -> value
ModelDump(item) ==
    [k \in {item.kv[i][1] : i \in 1..Len(item.kv)} |-> DumpValue(Lookup(item, k))]

----------------------------------------------------------------------------
(* parser.py: parse_excel_to_production_items, step 4 (the materializer) *)

\* the keyword arguments of parser.py 172-182
ItemKwargs(item_data, dates, fname) ==
    JDict(<< <<"order_number", DictGet(item_data, "order_number", Null)>>,
             <<"style", DictGet(item_data, "style", Null)>>,
             <<"fabric", DictGet(item_data, "fabric", Null)>>,
             <<"color", DictGet(item_data, "color", Null)>>,
             <<"quantity", DictGet(item_data, "quantity", Null)>>,
             <<"status", DictGet(item_data, "status", JStr("pending"))>>,
             <<"dates", dates>>,
             <<"source_file", JStr(fname)>>,
             <<"additional_data", DictGet(item_data, "additional_data", JDict(<<>>))>> >>)

\* one pass of the loop body, parser.py 163-188: ok is FALSE when the body
\* raised; after is item_data as the body left it
ItemOutcome(item_data, fname) ==
    IF item_data.t # "dict"
    THEN [ok |-> FALSE, after |-> item_data, item |-> Null]
    ELSE LET dates_data == DictGet(item_data, "dates", JDict(<<>>))
             after == DictPopDates(item_data)
         IN  IF Truthy(dates_data) /\ ~ProductionDatesOK(dates_data)
             THEN [ok |-> FALSE, after |-> after, item |-> Null]
             ELSE LET dates == IF Truthy(dates_data)
                               THEN ProductionDates(dates_data)
                               ELSE EmptyDates
                      kwargs == ItemKwargs(after, dates, fname)
                  IN  IF ProductionItemOK(kwargs)
                      THEN [ok |-> TRUE, after |-> after,
                            item |-> ProductionItemCreate(kwargs)]
                      ELSE [ok |-> FALSE, after |-> after, item |-> Null]

\* the loop of parser.py 161-188 from element i on, acc the list built so far
RECURSIVE ParseLoop(_, _, _, _, _)
ParseLoop(elems, i, fname, acc, afters) ==
    IF i > Len(elems)
    THEN [raised |-> FALSE, production_items |-> acc, after |-> afters]
    ELSE LET o == ItemOutcome(elems[i], fname)
         IN  IF o.ok
             THEN ParseLoop(elems, i + 1, fname, Append(acc, o.item),
                            Append(afters, o.after))
             ELSE ParseLoop(elems, i + 1, fname, acc, Append(afters, o.after))

\* a plausible slip: the loop without its try/except, the first error escapes
RECURSIVE ParseLoopRaising(_, _, _, _, _)
ParseLoopRaising(elems, i, fname, acc, afters) ==
    IF i > Len(elems)
    THEN [raised |-> FALSE, production_items |-> acc, after |-> afters]
    ELSE LET o == ItemOutcome(elems[i], fname)
         IN  IF o.ok
             THEN ParseLoopRaising(elems, i + 1, fname, Append(acc, o.item),
                                   Append(afters, o.after))
             ELSE [raised |-> TRUE, production_items |-> acc,
                   after |-> Append(afters, o.after)]

MaterializeRaising(items, fname) ==
    ParseLoopRaising(IterElems(items), 1, fname, <<>>, <<>>)

\* parser.py 160-191
Materialize(items, fname) == ParseLoop(IterElems(items), 1, fname, <<>>, <<>>)

----------------------------------------------------------------------------
(* The oracle's replies *)

KV(k, v) == <<k, v>>

RawExample ==
    JDict(<<KV("order_number", JStr("PO1")), KV("style", JStr("A1")),
            KV("quantity", JInt(5)), KV("status", JStr("pending"))>>)
RawEmpty == JDict(<<>>)
RawExtras ==
    JDict(<<KV("style", JStr("B2")),
            KV("dates", JDict(<<KV("fabric", JStr("2024-01-01")),
                                KV("wash", JStr("2024-02-01"))>>)),
            KV("PO", JStr("X")),
            KV("additional_data", JDict(<<KV("note", JStr("n"))>>))>>)
RawBadQuantity == JDict(<<KV("style", JStr("A1")), KV("quantity", JStr("abc"))>>)
RawBadDates == JDict(<<KV("style", JStr("A1")), KV("dates", JStr("soon"))>>)
RawNotAMap == JStr("x")
RawNulls ==
    JDict(<<KV("quantity", JStr("5")), KV("status", Null), KV("dates", Null)>>)
RawBadDateValue == JDict(<<KV("dates", JDict(<<KV("fabric", JInt(3))>>))>>)

RawItems ==
    {RawExample, RawEmpty, RawExtras, RawBadQuantity, RawBadDates, RawNotAMap,
     RawNulls, RawBadDateValue}

SeqsUpTo(S, n) == UNION {[1..m -> S] : m \in 0..n}

ReplyKeys == {"items", "production_items", "foo", "bar"}
ReplyVals ==
    {JList(<<RawExample>>), JList(<<RawBadQuantity, RawEmpty>>), JList(<<>>), JInt(7)}

\* objects of at most MaxKeys distinct keys, in every order
ReplyObjects ==
    {JDict(kv) : kv \in {q \in SeqsUpTo(ReplyKeys \X ReplyVals, MaxKeys) :
                            \A i, j \in 1..Len(q) : i # j => q[i][1] # q[j][1]}}

ReplyLists == {JList(l) : l \in SeqsUpTo(RawItems, MaxItems)}

\* what json.loads can return for the oracle's text
Replies ==
    ReplyLists \cup ReplyObjects
        \cup {RawExample, RawExtras, RawBadQuantity, JInt(7), JStr("ab"), Null}

Filenames == {"a.xlsx", "a.xls", "a.csv", "a.XLSX", "xlsx", "a.xlsx.bak", ""}

----------------------------------------------------------------------------
(* database.py: the documents and the clock *)

Oid(n) == [t |-> "oid", n |-> n]
Date(ms) == [t |-> "date", ms |-> ms]

\* the values n successive datetime.utcnow() calls can return: the clock never
\* runs backwards
ClockReadings(n) ==
    {ts \in [1..n -> clock..MaxClock] : \A i \in 1..(n - 1) : ts[i] <= ts[i + 1]}

LastReading(ts) == IF Len(ts) = 0 THEN clock ELSE ts[Len(ts)]

\* database.py 29-34 and the _id insert_many gives each document: ts are the
\* clock readings in call order, first the number of ObjectIds made before
NewDocuments(items, ts, first) ==
    [i \in 1..Len(items) |->
        ("_id" :> Oid(first + i))
            @@ ("created_at" :> Date(ts[2 * i - 1]))
            @@ ("updated_at" :> Date(ts[2 * i]))
            @@ ModelDump(items[i])]

\* a plausible slip: [str(result.inserted_ids)], one string for the whole list
InsertedIdsAsOne(docs) == IF Len(docs) = 0 THEN <<>> ELSE <<[hex |-> docs[1]["_id"].n]>>

\* str(id) for id in result.inserted_ids
InsertedIds(docs) == [i \in 1..Len(docs) |-> [hex |-> docs[i]["_id"].n]]

----------------------------------------------------------------------------
(* main.py: lifespan and upload_file *)

NoResponse ==
    [status_code |-> 0, detail |-> "", message |-> "", items_processed |-> 0,
     items_stored |-> 0, errors |-> Null]

\* raise HTTPException(status_code, detail)
HTTPException(code, detail) ==
    [status_code |-> code, detail |-> detail, message |-> "",
     items_processed |-> 0, items_stored |-> 0, errors |-> Null]

\* FileUploadResponse(...)
FileUploadResponse(message, processed, stored, errors) ==
    [status_code |-> 200, detail |-> "", message |-> message,
     items_processed |-> processed, items_stored |-> stored, errors |-> errors]

NoResult == [op |-> "none"]

\* the collection the run starts with
InitialStores ==
    {<<>>}

\* main.py 38-61: the store handle is built first; a failure there leaves the
\* parser unbuilt too
Init ==
    /\ \E mongo_ok \in BOOLEAN, key_ok \in BOOLEAN :
          /\ database = mongo_ok
          /\ parser = (mongo_ok /\ key_ok)
    /\ pc = "idle"
    /\ filename = ""
    /\ reply = Null
    /\ extracted_items = Null
    /\ item_data_after = <<>>
    /\ production_items = <<>>
    /\ response = NoResponse
    /\ decode_calls = 0
    /\ oracle_calls = 0
    /\ insert_calls = 0
    /\ store \in InitialStores
    /\ store_before = store
    /\ next_id = Len(store)
    /\ clock = 0
    /\ result = NoResult
    /\ history = <<>>

storeVars == <<store, next_id, clock, result, history>>

\* the handler ends with an HTTP response
Respond(r) ==
    /\ response' = r
    /\ pc' = "done"

\* a plausible slip: the availability checks made before the file type check
UploadRequestAvailabilityFirst ==
    /\ pc = "idle"
    /\ \E fn \in Filenames :
          /\ filename' = fn
          /\ IF ~parser
             THEN Respond(HTTPException(503, "Parser not available"))
             ELSE IF ~database
             THEN Respond(HTTPException(503, "Database not available"))
             ELSE IF ~(EndsWith(fn, ".xlsx") \/ EndsWith(fn, ".xls"))
             THEN Respond(HTTPException(400, "Invalid file type"))
             ELSE /\ pc' = "reading"
                  /\ response' = NoResponse
    /\ reply' = Null
    /\ extracted_items' = Null
    /\ item_data_after' = <<>>
    /\ production_items' = <<>>
    /\ decode_calls' = 0
    /\ oracle_calls' = 0
    /\ insert_calls' = 0
    /\ store_before' = store
    /\ UNCHANGED <<parser, database, storeVars>>

\* main.py 119-142: a request arrives; the checks made before the pipeline
UploadRequest ==
    /\ pc = "idle"
    /\ \E fn \in Filenames :
          /\ filename' = fn
          /\ IF ~(EndsWith(fn, ".xlsx") \/ EndsWith(fn, ".xls"))
             THEN Respond(HTTPException(400, "Invalid file type"))
             ELSE IF ~parser
             THEN Respond(HTTPException(503, "Parser not available"))
             ELSE IF ~database
             THEN Respond(HTTPException(503, "Database not available"))
             ELSE /\ pc' = "reading"
                  /\ response' = NoResponse
    /\ reply' = Null
    /\ extracted_items' = Null
    /\ item_data_after' = <<>>
    /\ production_items' = <<>>
    /\ decode_calls' = 0
    /\ oracle_calls' = 0
    /\ insert_calls' = 0
    /\ store_before' = store
    /\ UNCHANGED <<parser, database, storeVars>>

\* main.py 146 and parser.py 26-35, 37-51: the bytes are read and decoded
ReadExcel ==
    /\ pc = "reading"
    /\ decode_calls' = decode_calls + 1
    /\ \E decoded \in BOOLEAN :
          IF decoded
          THEN pc' = "decoded" /\ UNCHANGED response
          ELSE Respond(HTTPException(500, "DecodeError"))
    /\ UNCHANGED <<parser, database, filename, reply, extracted_items,
                   item_data_after, production_items, oracle_calls,
                   insert_calls, store_before, storeVars>>

\* a plausible slip: a failed oracle call is tried again
ExtractProductionDataRetrying ==
    /\ pc = "decoded"
    /\ oracle_calls' = oracle_calls + 1
    /\ \/ \* the call raises: stay, to call again
          /\ oracle_calls < 2
          /\ UNCHANGED <<pc, response, reply, extracted_items>>
       \/ \* json.loads raises
          /\ Respond(HTTPException(500, "JSONDecodeError"))
          /\ UNCHANGED <<reply, extracted_items>>
       \/ \E parsed_data \in Replies :
             /\ reply' = parsed_data
             /\ IF HasLen(NormalizeReply(parsed_data))
                THEN /\ extracted_items' = NormalizeReply(parsed_data)
                     /\ pc' = "extracted"
                     /\ UNCHANGED response
                ELSE /\ Respond(HTTPException(500, "TypeError"))
                     /\ UNCHANGED extracted_items
    /\ UNCHANGED <<parser, database, filename, item_data_after,
                   production_items, decode_calls, insert_calls,
                   store_before, storeVars>>

\* parser.py 103-142: the oracle is called and its reply parsed and normalised
ExtractProductionData ==
    /\ pc = "decoded"
    /\ oracle_calls' = oracle_calls + 1
    /\ \/ \* the call raises
          /\ Respond(HTTPException(500, "OracleError"))
          /\ UNCHANGED <<reply, extracted_items>>
       \/ \* json.loads raises
          /\ Respond(HTTPException(500, "JSONDecodeError"))
          /\ UNCHANGED <<reply, extracted_items>>
       \/ \E parsed_data \in Replies :
             /\ reply' = parsed_data
             /\ IF HasLen(NormalizeReply(parsed_data))
                THEN /\ extracted_items' = NormalizeReply(parsed_data)
                     /\ pc' = "extracted"
                     /\ UNCHANGED response
                ELSE \* len(items) raises
                     /\ Respond(HTTPException(500, "TypeError"))
                     /\ UNCHANGED extracted_items
    /\ UNCHANGED <<parser, database, filename, item_data_after,
                   production_items, decode_calls, insert_calls,
                   store_before, storeVars>>

\* parser.py 160-191: the raw maps become records
MaterializeItems ==
    /\ pc = "extracted"
    /\ LET m == Materialize(extracted_items, filename)
       IN  /\ production_items' = m.production_items
           /\ item_data_after' = m.after
           /\ IF m.raised
              THEN Respond(HTTPException(500, "RecordError"))
              ELSE pc' = "parsed" /\ UNCHANGED response
    /\ UNCHANGED <<parser, database, filename, reply, extracted_items,
                   decode_calls, oracle_calls, insert_calls,
                   store_before, storeVars>>

\* main.py 157-184 with database.py 27-40: the batch is stored and reported
StoreBatch ==
    /\ pc = "parsed"
    /\ IF Len(production_items) > 0
       THEN /\ insert_calls' = insert_calls + 1
            /\ \E ts \in ClockReadings(2 * Len(production_items)) :
                  LET docs == NewDocuments(production_items, ts, next_id)
                  IN  /\ clock' = LastReading(ts)
                      /\ \/ \* insert_many returns
                            /\ store' = store \o docs
                            /\ next_id' = next_id + Len(docs)
                            /\ Respond(FileUploadResponse(
                                   "File processed successfully",
                                   Len(production_items),
                                   Len(InsertedIds(docs)), Null))
                         \/ \* insert_many raises after writing k documents
                            \E k \in 0..(Len(docs) - 1) :
                               /\ store' = store \o SubSeq(docs, 1, k)
                               /\ next_id' = next_id + Len(docs)
                               /\ Respond(HTTPException(500, "StoreError"))
       ELSE /\ Respond(FileUploadResponse(
                   "No items found in file", 0, 0,
                   JList(<<JStr("No production items could be extracted from the file")>>)))
            /\ UNCHANGED <<insert_calls, store, next_id, clock>>
    /\ UNCHANGED <<parser, database, filename, reply, extracted_items,
                   item_data_after, production_items, decode_calls,
                   oracle_calls, store_before, result, history>>

UploadNext ==
    \/ UploadRequest
    \/ ReadExcel
    \/ ExtractProductionData
    \/ MaterializeItems
    \/ StoreBatch

UploadSpec == Init /\ [][UploadNext]_vars

----------------------------------------------------------------------------
(* database.py: identifiers *)

\* Identifier strings: [hex |-> n] is the 24-digit hexadecimal text of the
\* n-th ObjectId, [bad |-> s] a string that is no such text.
IdStrings ==
    {[hex |-> n] : n \in 1..MaxIds} \cup {[bad |-> "not-an-id"]}

\* ObjectId.is_valid(item_id): ObjectId(item_id) raises InvalidId otherwise
ObjectIdIsValid(item_id) == "hex" \in DOMAIN item_id

\* ObjectId(item_id), for a valid item_id
ObjectId(item_id) == Oid(item_id.hex)

\* str(oid)
StrOfOid(oid) == [hex |-> oid.n]

None == [t |-> "None"]

\* positions of the documents with this _id
Find(st, oid) == {i \in 1..Len(st) : st[i]["_id"] = oid}

\* st without the document at position i
RemoveAt(st, i) == SubSeq(st, 1, i - 1) \o SubSeq(st, i + 1, Len(st))

\* a plausible slip: no try/except around the lookup, InvalidId escapes
GetProductionItemRaising(st, item_id) ==
    IF ~ObjectIdIsValid(item_id)
    THEN [raised |-> TRUE, value |-> None]
    ELSE IF Find(st, ObjectId(item_id)) = {}
    THEN [raised |-> FALSE, value |-> None]
    ELSE LET item == st[Min(Find(st, ObjectId(item_id)))]
         IN  [raised |-> FALSE,
              value |-> [item EXCEPT !["_id"] = StrOfOid(item["_id"])]]

\* database.py 42-51
GetProductionItem(st, item_id) ==
    IF ~ObjectIdIsValid(item_id)
    THEN [raised |-> FALSE, value |-> None]
    ELSE IF Find(st, ObjectId(item_id)) = {}
    THEN [raised |-> FALSE, value |-> None]
    ELSE LET item == st[Min(Find(st, ObjectId(item_id)))]
         IN  [raised |-> FALSE,
              value |-> [item EXCEPT !["_id"] = StrOfOid(item["_id"])]]

\* {"$set": update_data} applied to a document
SetFieldsOf(doc, update_data) ==
    [k \in DOMAIN doc \cup DOMAIN update_data |->
        IF k \in DOMAIN update_data THEN update_data[k] ELSE doc[k]]

\* database.py 84-95, now the clock reading of line 87: raised, the value
\* returned and the collection afterwards. The store refuses a $set that would
\* change _id; a document left as it was counts as not modified.
UpdateProductionItem(st, item_id, update_data, now) ==
    LET data == ("updated_at" :> Date(now)) @@ update_data
    IN  IF ~ObjectIdIsValid(item_id)
        THEN [raised |-> FALSE, value |-> FALSE, store |-> st]
        ELSE IF Find(st, ObjectId(item_id)) = {}
        THEN [raised |-> FALSE, value |-> FALSE, store |-> st]
        ELSE LET i == Min(Find(st, ObjectId(item_id)))
                 new == SetFieldsOf(st[i], data)
             IN  IF new["_id"] # st[i]["_id"]
                 THEN [raised |-> FALSE, value |-> FALSE, store |-> st]
                 ELSE [raised |-> FALSE, value |-> (new # st[i]),
                       store |-> [st EXCEPT ![i] = new]]

\* database.py 97-104
DeleteProductionItem(st, item_id) ==
    IF ~ObjectIdIsValid(item_id)
    THEN [raised |-> FALSE, value |-> FALSE, store |-> st]
    ELSE IF Find(st, ObjectId(item_id)) = {}
    THEN [raised |-> FALSE, value |-> FALSE, store |-> st]
    ELSE [raised |-> FALSE, value |-> TRUE,
          store |-> RemoveAt(st, Min(Find(st, ObjectId(item_id))))]

----------------------------------------------------------------------------
(* database.py: get_production_items *)

Lower(c) == CASE c = "A" -> "a" [] c = "B" -> "b" [] OTHER -> c

\* whether the regular expression matches at offset off of text, ignoring
\* case: "." stands for any character, every other character of the model's
\* alphabet for itself
RegexMatchesAt(pattern, text, off) ==
    /\ off + Len(pattern) <= Len(text)
    /\ \A i \in 1..Len(pattern) :
          \/ pattern[i] = "."
          \/ Lower(pattern[i]) = Lower(text[off + i])

\* {"$regex": pattern, "$options": "i"} on a field value
RegexSearch(pattern, v) ==
    /\ v.t = "str"
    /\ \E off \in 0..Len(Chars(v.s)) : RegexMatchesAt(Chars(pattern), Chars(v.s), off)

\* database.py 62-69: the query document, key -> condition
BuildQuery(style, status, order_number) ==
    LET keys == {k \in {"style", "status", "order_number"} :
                    CASE k = "style" -> Truthy(style)
                      [] k = "status" -> Truthy(status)
                      [] k = "order_number" -> Truthy(order_number)}
    IN  [k \in keys |->
            CASE k = "style" -> [op |-> "regex", arg |-> style.s]
              [] k = "status" -> [op |-> "eq", arg |-> status]
              [] k = "order_number" -> [op |-> "regex", arg |-> order_number.s]]

\* whether a document satisfies the query document
Matches(doc, query) ==
    \A k \in DOMAIN query :
        /\ k \in DOMAIN doc
        /\ IF query[k].op = "regex"
           THEN RegexSearch(query[k].arg, doc[k])
           ELSE doc[k] = query[k].arg

\* collection.count_documents(query)
CountDocuments(st, query) == Cardinality({i \in 1..Len(st) : Matches(st[i], query)})

\* the orders find(query).sort("created_at", -1) can return the matches in:
\* documents created at the same instant come in either order
SortedMatches(st, query) ==
    LET M == {i \in 1..Len(st) : Matches(st[i], query)}
        n == Cardinality(M)
    IN  {[j \in 1..n |-> st[p[j]]] :
            p \in {q \in [1..n -> M] :
                      /\ \A a, b \in 1..n : a # b => q[a] # q[b]
                      /\ \A a \in 1..(n - 1) :
                            st[q[a]]["created_at"].ms >= st[q[a + 1]]["created_at"].ms}}

\* cursor.skip(skip).limit(limit) over a sorted result
Page(sorted, skip, limit) ==
    SubSeq(sorted, skip + 1, IF skip + limit < Len(sorted) THEN skip + limit ELSE Len(sorted))

\* the _id of each item turned into its string
WithStringIds(items) ==
    [i \in 1..Len(items) |-> [items[i] EXCEPT !["_id"] = StrOfOid(items[i]["_id"])]]

\* a plausible slip: the total taken from the page instead of the collection
GetProductionItemsTotalOfPage(st, skip, limit, style, status, order_number) ==
    LET query == BuildQuery(style, status, order_number)
    IN  {[items |-> WithStringIds(Page(sorted, skip, limit)),
          total |-> Len(Page(sorted, skip, limit))] :
            sorted \in SortedMatches(st, query)}

\* database.py 53-82: the (items, total) pairs the call can return
GetProductionItems(st, skip, limit, style, status, order_number) ==
    LET query == BuildQuery(style, status, order_number)
    IN  {[items |-> WithStringIds(Page(sorted, skip, limit)),
          total |-> CountDocuments(st, query)] :
            sorted \in SortedMatches(st, query)}

----------------------------------------------------------------------------
(* The store gateway and the item endpoints as actions *)

\* the records given to the create calls
RecordFull ==
    ProductionItemCreate(JDict(<<KV("order_number", JStr("a")), KV("style", JStr("Ab")),
                                 KV("quantity", JStr("5")), KV("status", JStr("pending"))>>))
RecordNones ==
    ProductionItemCreate(
        JDict(<<KV("style", Null), KV("status", Null),
                KV("dates", ProductionDates(JDict(<<KV("fabric", JStr("x"))>>))),
                KV("additional_data", JDict(<<KV("note", JStr("x"))>>))>>))

Records == {RecordFull, RecordNones}

\* the partial documents given to update_production_item (Dict[str, Any])
UpdateDatas ==
    {("status" :> JStr("done")) @@ ("created_at" :> Date(MaxClock + 1)),
     "_id" :> Oid(MaxIds + 1)}

\* the filter arguments of a query: style, status, order_number
Filter(style, status, order_number) ==
    [style |-> style, status |-> status, order_number |-> order_number]

Filters ==
    {Filter(Null, Null, Null),
     Filter(JStr(""), Null, Null),
     Filter(JStr("."), Null, Null),
     Filter(JStr("aB"), JStr("pending"), JStr("A")),
     Filter(Null, JStr("done"), JStr(""))}

\* ProductionItem(**item): the fields of the response model, defaults filled in
ProductionItem(item) ==
    [k \in ItemFields \cup {"id", "created_at", "updated_at"} |->
        IF k = "id" THEN item["_id"]
        ELSE IF k \notin DOMAIN item THEN FieldDefault(k)
        ELSE IF k = "dates" /\ item[k].t = "dict" THEN ProductionDates(item[k])
        ELSE item[k]]

\* history: per identifier made in this run, the record its document was created
\* from and whether an update has found it since; nothing once it is deleted
NoHistory == [item |-> Null, updated |-> FALSE]
NewHistory(item) == [item |-> item, updated |-> FALSE]

\* history once the documents of before that are not in after are gone
Forget(h, before, after) ==
    [n \in 1..Len(h) |->
        IF Find(before, Oid(n)) # {} /\ Find(after, Oid(n)) = {} THEN NoHistory ELSE h[n]]

\* database.py 18-25
CreateItem ==
    /\ database
    /\ next_id < MaxIds
    /\ \E item \in Records, ts \in ClockReadings(2) :
          LET docs == NewDocuments(<<item>>, ts, next_id)
          IN  /\ store' = store \o docs
              /\ clock' = LastReading(ts)
              /\ result' = [op |-> "create", item |-> item, id |-> InsertedIds(docs)[1]]
              /\ history' = Append(history, NewHistory(item))
    /\ next_id' = next_id + 1
    /\ UNCHANGED <<parser, database, uploadVars>>

\* database.py 27-40
CreateMany ==
    /\ database
    /\ \E items \in SeqsUpTo(Records, MaxBatch) :
          /\ next_id + Len(items) <= MaxIds
          /\ IF Len(items) = 0
             THEN /\ result' = [op |-> "create_many", ids |-> <<>>, inserted |-> FALSE]
                  /\ UNCHANGED <<store, clock, next_id, history>>
             ELSE \E ts \in ClockReadings(2 * Len(items)) :
                     LET docs == NewDocuments(items, ts, next_id)
                     IN  /\ store' = store \o docs
                         /\ clock' = LastReading(ts)
                         /\ next_id' = next_id + Len(items)
                         /\ result' = [op |-> "create_many", ids |-> InsertedIds(docs),
                                       inserted |-> TRUE]
                         /\ history' = history \o
                                [i \in 1..Len(items) |-> NewHistory(items[i])]
    /\ UNCHANGED <<parser, database, uploadVars>>

\* database.py 53-82
QueryItems ==
    /\ database
    /\ \E skip \in 0..MaxSkip, limit \in 1..MaxLimit, f \in Filters :
          \E r \in GetProductionItems(store, skip, limit, f.style, f.status,
                                      f.order_number) :
             result' = [op |-> "query", skip |-> skip, limit |-> limit, filter |-> f,
                        items |-> r.items, total |-> r.total]
    /\ UNCHANGED <<parser, database, uploadVars, store, next_id, clock, history>>

\* history after an update of item_id that found its document
Touched(item_id, found) ==
    IF found /\ item_id.hex \in 1..Len(history)
    THEN [history EXCEPT ![item_id.hex].updated = TRUE]
    ELSE history

\* database.py 84-95
UpdateItem ==
    /\ database
    /\ \E item_id \in IdStrings, update_data \in UpdateDatas, ts \in ClockReadings(1) :
          LET r == UpdateProductionItem(store, item_id, update_data, ts[1])
              found == ObjectIdIsValid(item_id) /\ Find(store, ObjectId(item_id)) # {}
          IN  /\ store' = r.store
              /\ clock' = ts[1]
              /\ result' = [op |-> "update", item_id |-> item_id, raised |-> r.raised,
                            value |-> r.value, unchanged |-> (r.store = store)]
              /\ history' = Touched(item_id, found)
    /\ UNCHANGED <<parser, database, uploadVars, next_id>>

\* database.py 106-109
DeleteAll ==
    /\ database
    /\ store' = <<>>
    /\ result' = [op |-> "delete_all", value |-> Len(store)]
    /\ history' = Forget(history, store, <<>>)
    /\ UNCHANGED <<parser, database, uploadVars, next_id, clock>>

\* main.py 228-256 with database.py 42-51: GET /api/production-items/{item_id}.
\* called: the gateway was called; raised, value: what the gateway call did
GetItemEndpoint ==
    /\ \E item_id \in IdStrings :
          IF ~database
          THEN result' = [op |-> "GET", item_id |-> item_id, called |-> FALSE,
                          raised |-> FALSE, value |-> None, status_code |-> 503,
                          body |-> None, unchanged |-> TRUE]
          ELSE LET r == GetProductionItem(store, item_id)
               IN  result' = [op |-> "GET", item_id |-> item_id, called |-> TRUE,
                              raised |-> r.raised, value |-> r.value,
                              status_code |-> IF r.raised THEN 500
                                              ELSE IF r.value = None THEN 404 ELSE 200,
                              body |-> IF ~r.raised /\ r.value # None
                                       THEN ProductionItem(r.value) ELSE None,
                              unchanged |-> TRUE]
    /\ UNCHANGED <<parser, database, uploadVars, store, next_id, clock, history>>

\* main.py 258-289 with database.py 97-104: DELETE /api/production-items/{item_id}
DeleteItemEndpoint ==
    /\ \E item_id \in IdStrings :
          IF ~database
          THEN /\ result' = [op |-> "DELETE", item_id |-> item_id, called |-> FALSE,
                             raised |-> FALSE, value |-> FALSE, status_code |-> 503,
                             unchanged |-> TRUE]
               /\ UNCHANGED <<store, history>>
          ELSE LET r == DeleteProductionItem(store, item_id)
               IN  /\ store' = r.store
                   /\ history' = Forget(history, store, r.store)
                   /\ result' = [op |-> "DELETE", item_id |-> item_id, called |-> TRUE,
                                 raised |-> r.raised, value |-> r.value,
                                 status_code |-> IF r.raised THEN 500
                                                 ELSE IF r.value THEN 200 ELSE 404,
                                 unchanged |-> (r.store = store)]
    /\ UNCHANGED <<parser, database, uploadVars, next_id, clock>>

Next ==
    \/ CreateItem
    \/ CreateMany
    \/ UpdateItem
    \/ DeleteAll
    \/ GetItemEndpoint
    \/ DeleteItemEndpoint

Spec == Init /\ [][Next]_vars

\* the queries, over the collections the create calls build
QueryNext ==
    \/ CreateItem
    \/ CreateMany
    \/ DeleteAll
    \/ QueryItems

QuerySpec == Init /\ [][QueryNext]_vars

-----------------------------------------------------------------------------
(* Properties of the reply normalisation and of the upload *)

\* the value the precedence of the normalisation rule selects from a reply:
\* a list itself; else the value under "items"; else the one under
\* "production_items"; else the first list-valued field; else the reply wrapped
HasListField(r) == \E i \in 1..Len(r.kv) : r.kv[i][2].t = "list"
FirstListField(r) ==
    r.kv[CHOOSE i \in 1..Len(r.kv) :
            /\ r.kv[i][2].t = "list"
            /\ \A j \in 1..(i - 1) : r.kv[j][2].t # "list"][2]
RuleChoice(r) ==
    CASE r.t = "list" -> r
      [] r.t = "dict" /\ Contains(r, "items") -> Lookup(r, "items")
      [] r.t = "dict" /\ ~Contains(r, "items") /\ Contains(r, "production_items") ->
            Lookup(r, "production_items")
      [] r.t = "dict" /\ ~Contains(r, "items") /\ ~Contains(r, "production_items")
            /\ HasListField(r) -> FirstListField(r)
      [] OTHER -> JList(<<r>>)

\* the reply has been normalised into an item sequence
Normalised == pc = "extracted"

\* C1: whenever extract_production_data returns, what it returns is what the
\* first matching rule selects from the parsed reply: the list itself, else
\* the value under "items", else the value under "production_items", else the
\* first list-valued field of the object, else the one-element list of the object
C1_FirstMatchingRule ==
    (Normalised /\ reply.t \in {"list", "dict"}) => extracted_items = RuleChoice(reply)

\* C1 witness: a reply with "production_items" ahead of "items", both present and
\* different, normalised to the value under "items"
C1_Witness ==
    /\ Normalised
    /\ reply.t = "dict"
    /\ Len(reply.kv) = 2
    /\ reply.kv[1][1] = "production_items"
    /\ reply.kv[2][1] = "items"
    /\ reply.kv[1][2] # reply.kv[2][2]
    /\ extracted_items = reply.kv[2][2]

\* a raw map is well-formed when its record construction does not raise
WellFormed(item_data) == ItemOutcome(item_data, filename).ok
RecordOf(item_data) == ItemOutcome(item_data, filename).item

\* the materializer has gone through the whole item sequence
Materialized ==
    \/ pc = "parsed"
    \/ pc = "done" /\ response.status_code = 200
    \/ pc = "done" /\ response.status_code = 500 /\ response.detail = "StoreError"

\* C2: of N raw maps of which M are malformed, the materializer returns the N - M
\* records of the well-formed ones, in their order, and a malformed map never
\* makes it fail
C2_SkipsMalformed ==
    /\ ~(pc = "done" /\ response.status_code = 500 /\ response.detail = "RecordError")
    /\ Materialized =>
          LET elems == IterElems(extracted_items)
              good == SelectSeq(elems, WellFormed)
              M == Cardinality({i \in 1..Len(elems) : ~WellFormed(elems[i])})
          IN  /\ Len(production_items) = Len(elems) - M
              /\ production_items = [i \in 1..Len(good) |-> RecordOf(good[i])]

\* C2 witness: a malformed map followed by a well-formed one, one record returned
C2_Witness ==
    /\ pc = "parsed"
    /\ extracted_items.t = "list"
    /\ Len(extracted_items.l) = 2
    /\ ~WellFormed(extracted_items.l[1])
    /\ WellFormed(extracted_items.l[2])
    /\ production_items = <<RecordOf(extracted_items.l[2])>>

\* the upload failed in the decoder, the oracle or the reply normalisation
EarlyFailures == {"DecodeError", "OracleError", "JSONDecodeError", "TypeError"}
FailedEarly ==
    pc = "done" /\ response.status_code = 500 /\ response.detail \in EarlyFailures

\* C8: the decoder and the oracle are tried once, the one store insertion comes
\* after the whole materialisation, and an upload whose decoding, oracle call or
\* reply fails ends with a failure reported and the store as it was
C8_AllOrNothing ==
    /\ decode_calls <= 1
    /\ oracle_calls <= 1
    /\ insert_calls <= 1
    /\ insert_calls = 1 =>
          /\ Materialized
          /\ Len(item_data_after) = Len(IterElems(extracted_items))
    /\ FailedEarly => (store = store_before /\ insert_calls = 0)
    /\ (pc = "done" /\ decode_calls = 1 /\ extracted_items = Null) =>
          response.status_code = 500

\* C8 witness: the oracle call failed, once, and the upload ended with a failure
C8_Witness ==
    /\ FailedEarly
    /\ response.detail = "OracleError"
    /\ decode_calls = 1
    /\ oracle_calls = 1
    /\ store = store_before

\* name ends with suffix, character by character
HasSuffix(name, suffix) ==
    LET n == Chars(name)
        x == Chars(suffix)
    IN  /\ Len(x) <= Len(n)
        /\ \A i \in 1..Len(x) : n[Len(n) - Len(x) + i] = x[i]
ExcelName(name) == HasSuffix(name, ".xlsx") \/ HasSuffix(name, ".xls")

\* C9: an upload whose filename ends neither in .xlsx nor in .xls is answered
\* with a validation failure, whatever the availability of parser and store,
\* before the decoder, the oracle or the store is touched
C9_BadExtensionRejected ==
    (pc # "idle" /\ ~ExcelName(filename)) =>
        /\ pc = "done"
        /\ response.status_code = 400
        /\ decode_calls = 0
        /\ oracle_calls = 0
        /\ insert_calls = 0
        /\ store = store_before

\* C9 witness: a rejected upload of "a.xlsx.bak" while the parser is unavailable
C9_Witness ==
    /\ pc = "done"
    /\ filename = "a.xlsx.bak"
    /\ ~parser
    /\ response.status_code = 400
    /\ decode_calls = 0

\* C10 as stated: every reply that is a list or an object normalises to a
\* non-empty item sequence
C10_AlwaysNonEmpty ==
    (Normalised /\ reply.t \in {"list", "dict"}) => Len(IterElems(extracted_items)) > 0

\* C10: every reply that is a list or an object normalises to an item sequence
\* that is non-empty exactly when the value the precedence selects is non-empty;
\* an object with no "items", no "production_items" and no list-valued field
\* gives exactly one item, the object
C10_NonEmptyWhenChoiceIs ==
    (Normalised /\ reply.t \in {"list", "dict"}) =>
        /\ Len(IterElems(extracted_items)) > 0 <=> Truthy(RuleChoice(reply))
        /\ (reply.t = "dict" /\ ~Contains(reply, "items")
              /\ ~Contains(reply, "production_items") /\ ~HasListField(reply)) =>
                 IterElems(extracted_items) = <<reply>>

\* C10 witness: the reply {"items": []} normalised to the empty sequence
C10_Witness ==
    /\ Normalised
    /\ reply = JDict(<<KV("items", JList(<<>>))>>)
    /\ IterElems(extracted_items) = <<>>

-----------------------------------------------------------------------------
(* Properties of the store gateway *)

\* the last call was a query
Queried == result.op = "query"

\* the filter predicate of a query, on a document or a returned item
Satisfies(doc, f) == Matches(doc, BuildQuery(f.style, f.status, f.order_number))

\* C3: the total a query reports is the number of stored records that satisfy
\* its filter, is the same under every skip and limit, every record of the page
\* satisfies the filter, and the page holds at most limit records
C3_TotalAndPage ==
    Queried =>
        /\ result.total = Cardinality({i \in 1..Len(store) : Satisfies(store[i], result.filter)})
        /\ \A skip \in 0..MaxSkip, limit \in 1..MaxLimit :
              \A r \in GetProductionItems(store, skip, limit, result.filter.style,
                                          result.filter.status,
                                          result.filter.order_number) :
                 r.total = result.total
        /\ \A i \in 1..Len(result.items) : Satisfies(result.items[i], result.filter)
        /\ Len(result.items) <= result.limit

\* C3 witness: a query with a style filter that one of the two stored records
\* satisfies, answered with a page of that record and a total of one
C3_Witness ==
    /\ Queried
    /\ Truthy(result.filter.style)
    /\ result.limit = 1
    /\ Len(result.items) = 1
    /\ result.total = 1
    /\ Len(store) = 2

\* text holds pattern as a substring, letter case ignored
OccursIn(pattern, text) ==
    LET x == Chars(pattern)
        n == Chars(text)
    IN  \E off \in 0..(Len(n) - Len(x)) :
           \A i \in 1..Len(x) : Lower(x[i]) = Lower(n[off + i])

\* a filter argument is given when the gateway takes it into the query
Given(arg) == Truthy(arg)

\* the filter as stated: substring for style and order_number, equality for status
StatedMatch(doc, f) ==
    /\ Given(f.style) =>
          ("style" \in DOMAIN doc /\ doc["style"].t = "str"
             /\ OccursIn(f.style.s, doc["style"].s))
    /\ Given(f.order_number) =>
          ("order_number" \in DOMAIN doc /\ doc["order_number"].t = "str"
             /\ OccursIn(f.order_number.s, doc["order_number"].s))
    /\ Given(f.status) => ("status" \in DOMAIN doc /\ doc["status"] = f.status)

\* C4: a query counts exactly the records whose style and order_number hold the
\* given filter text as a substring, letter case ignored, and whose status is
\* the given one, all given filters at once
C4_SubstringFilters ==
    Queried =>
        result.total = Cardinality({i \in 1..Len(store) : StatedMatch(store[i], result.filter)})

\* the record an identifier of this run was created from is known and no update
\* has touched its document
Untouched(n) == history[n].item # Null /\ ~history[n].updated

\* C5: a record handed to create and read back under the returned identifier,
\* with no update or delete of that identifier in between, has in every field a
\* caller can set the value the caller gave
C5_RoundTrip ==
    \A n \in 1..Len(history) :
        Untouched(n) =>
            LET r == GetProductionItem(store, [hex |-> n])
            IN  /\ ~r.raised
                /\ r.value # None
                /\ \A k \in ItemFields :
                      ProductionItem(r.value)[k] = Attr(history[n].item, k)

\* C5 witness: the first record read back and found after a second identifier
\* was created and deleted
C5_Witness ==
    /\ result.op = "GET"
    /\ result.status_code = 200
    /\ result.item_id = [hex |-> 1]
    /\ Len(history) = 2
    /\ Untouched(1)
    /\ Find(store, Oid(2)) = {}
    /\ \A k \in ItemFields : result.body[k] = Attr(history[1].item, k)

\* C6: in every store reached by create, createMany, update, delete and
\* deleteAll under a non-decreasing clock, each record has updated_at no earlier
\* than created_at and an identifier of its own, and a step changes no
\* identifier and moves no updated_at back
C6_StoreInvariants ==
    [][/\ \A i \in 1..Len(store') :
             store'[i]["updated_at"].ms >= store'[i]["created_at"].ms
       /\ \A i, j \in 1..Len(store') :
             store'[i]["_id"] = store'[j]["_id"] => i = j
       /\ result'.op = "update" =>
             /\ Len(store') = Len(store)
             /\ \A i \in 1..Len(store) : store'[i]["_id"] = store[i]["_id"]
       /\ \A i \in 1..Len(store), j \in 1..Len(store') :
             store'[j]["_id"] = store[i]["_id"] =>
                store'[j]["updated_at"].ms >= store[i]["updated_at"].ms]_vars

\* a well-formed identifier no record of the run has
AbsentId == [hex |-> MaxIds + 1]

\* the last call went to the gateway with a string that is no identifier
MalformedCall(op) ==
    /\ result.op = op
    /\ ~ObjectIdIsValid(result.item_id)
    /\ op \in {"GET", "DELETE"} => result.called

\* C7: get, update and delete given a string that is no identifier raise
\* nothing, answer None, False and False, leave the store as it was, and answer
\* as they do for a well-formed identifier that no record has
C7_MalformedIdNotFound ==
    /\ MalformedCall("GET") =>
          /\ ~result.raised
          /\ result.value = None
          /\ result.unchanged
          /\ result.status_code = 404
          /\ result.value = GetProductionItem(store, AbsentId).value
    /\ MalformedCall("update") =>
          /\ ~result.raised
          /\ result.value = FALSE
          /\ result.unchanged
          /\ \A u \in UpdateDatas :
                result.value = UpdateProductionItem(store, AbsentId, u, clock).value
    /\ MalformedCall("DELETE") =>
          /\ ~result.raised
          /\ result.value = FALSE
          /\ result.unchanged
          /\ result.status_code = 404
          /\ result.value = DeleteProductionItem(store, AbsentId).value

\* C7 witness: a record is stored and a get with a malformed string found nothing
C7_Witness ==
    /\ MalformedCall("GET")
    /\ Len(store) > 0
    /\ result.value = None
    /\ result.status_code = 404

-----------------------------------------------------------------------------
(* Properties of the materialized records and of the upload's report *)

\* the raw maps of the batch, those that gave a record, and the map of record j
RawMaps == IterElems(extracted_items)
GoodMaps == SelectSeq(RawMaps, WellFormed)

\* the dates of a raw map are absent, or are no mapping of milestone dates
DatesAbsentOrMalformed(item_data) ==
    \/ ~Contains(item_data, "dates")
    \/ ~ProductionDatesOK(Lookup(item_data, "dates"))

\* whether a raw map is to give a record as stated, and which: a map whose
\* dates are absent or malformed counts as the same map without its dates
StatedMap(item_data) ==
    IF item_data.t = "dict" /\ DatesAbsentOrMalformed(item_data)
    THEN DictPopDates(item_data)
    ELSE item_data
StatedOK(item_data) == ItemOutcome(StatedMap(item_data), filename).ok
StatedRecord(item_data) == ItemOutcome(StatedMap(item_data), filename).item

\* C11: once a batch is materialized no raw map holds its dates any more, and a
\* map whose dates are absent or malformed has given a record with empty
\* milestone dates, as the same map without dates would, instead of being skipped
C11_DatesRemovedOrEmpty ==
    Materialized =>
        /\ \A i \in 1..Len(RawMaps) :
              RawMaps[i].t = "dict" => ~Contains(item_data_after[i], "dates")
        /\ LET stated == SelectSeq(RawMaps, StatedOK)
           IN  /\ production_items = [j \in 1..Len(stated) |-> StatedRecord(stated[j])]
               /\ \A j \in 1..Len(stated) :
                     (stated[j].t = "dict" /\ DatesAbsentOrMalformed(stated[j])) =>
                        Attr(production_items[j], "dates") = EmptyDates

\* the keys of a raw map that a named field of the record consumes
ConsumedKeys ==
    {"order_number", "style", "fabric", "color", "quantity", "status", "dates",
     "additional_data"}

\* the record's additional_data holds key k with value v
InAdditionalData(item, k, v) ==
    LET a == Attr(item, "additional_data")
    IN  a.t = "dict" /\ Contains(a, k) /\ Lookup(a, k) = v

\* C12: every record of a materialized batch carries in additional_data each
\* key of its raw map that no named field consumes, with its value, and has
\* the upload's filename as source_file
C12_NothingLost ==
    Materialized =>
        \A j \in 1..Len(production_items) :
            /\ Attr(production_items[j], "source_file") = JStr(filename)
            /\ \A i \in 1..Len(GoodMaps[j].kv) :
                  GoodMaps[j].kv[i][1] \notin ConsumedKeys =>
                     InAdditionalData(production_items[j], GoodMaps[j].kv[i][1],
                                      GoodMaps[j].kv[i][2])

\* the upload was processed and answered with its report
Processed == pc = "done" /\ response.status_code = 200

\* C13: the report of a processed upload gives as items_processed the number
\* of materialized records and as items_stored the number of identifiers the
\* store returned, one per record stored, and the two are equal; with no record
\* the insert is not called, both counts are 0 and the error list is populated;
\* with a record or more the error list is absent
C13_ReportCounts ==
    Processed =>
        /\ response.items_processed = Len(production_items)
        /\ response.items_stored = Len(store) - Len(store_before)
        /\ response.items_stored = response.items_processed
        /\ Len(production_items) = 0 =>
              /\ insert_calls = 0
              /\ response.items_processed = 0
              /\ response.items_stored = 0
              /\ response.errors.t = "list"
              /\ Len(response.errors.l) > 0
        /\ Len(production_items) > 0 =>
              /\ insert_calls = 1
              /\ response.errors = Null

\* C13 witness: the reply {"items": [one valid item]} processed: both counts
\* 1, one new stored record, no error list
C13_Witness ==
    /\ Processed
    /\ reply = JDict(<<KV("items", JList(<<RawExample>>))>>)
    /\ response.items_processed = 1
    /\ response.items_stored = 1
    /\ Len(store) = Len(store_before) + 1
    /\ response.errors = Null

====
